---- MODULE Spec2Model ----
(***************************************************************************)
(* Model of components/tree.py: the Tree class that turns the nested AST   *)
(* description read from JSON into an edge list, per-node colors and       *)
(* labels, lays the tree out with igraph's Reingold-Tilford layout and     *)
(* transforms the layout into plot coordinates (vertical or horizontal).   *)
(*                                                                         *)
(* Python values are modelled as follows.                                  *)
(*   - a list is a sequence; Python index i is position i + 1;             *)
(*   - a node dict is a record; has_children says whether the key          *)
(*     'children' is present (a present key may hold an empty list);       *)
(*   - an entry of edges_x / edges_y is <<v>> for the number v and <<>>    *)
(*     for None;                                                           *)
(*   - an exception leaving get_figure is recorded in result.              *)
(***************************************************************************)
EXTENDS Integers, Sequences, FiniteSets, TLC

VARIABLES data, edges, colors, text, calls, result, layout, fig, graph

vars == <<data, edges, colors, text, calls, result, layout, fig, graph>>

(***************************************************************************)
(* Bounds of the model.                                                    *)
(***************************************************************************)
\* largest number of nodes in the input document
MaxNodes == 3
\* largest number of nodes in an input document that need not be well formed
MaxAnyNodes == 2
\* largest number of get_figure / view calls on one instance
MaxCalls == 2

\* order coordinates the layout may hand out
OrderVals == {0, 1}
\* rows the layout may give to a vertex the root does not reach
UnreachedRows == {-1, 1}
\* heights handed to view: 0 stands for None (both are falsy in Python)
Heights == {0, 300}
DashIds == {"tree"}

(***************************************************************************)
(* constant.DIAGRAM_COLORS: the palette, from category tag to color.       *)
(***************************************************************************)
COLORS ==
  [k \in {"require", "variable", "function", "interface", "other", "plot-line"}
     |-> "color:" \o k]

\* container tags that occur in the inputs: two of the palette, one outside it
ValidContainers == {"function", "variable"}
Containers == ValidContainers \cup {"bogus"}

(***************************************************************************)
(* Small helpers on sequences and sets.                                    *)
(***************************************************************************)
Max(S) == CHOOSE m \in S : \A x \in S : x <= m
Min(S) == CHOOSE m \in S : \A x \in S : m <= x

RECURSIVE SortedSeq(_)
SortedSeq(S) ==
  IF S = {} THEN <<>> ELSE <<Min(S)>> \o SortedSeq(S \ {Min(S)})

(***************************************************************************)
(* The input documents.  A document with n nodes is described by the       *)
(* parent position of every node in document order (0: top level), its     *)
(* master_index and its container; NodeAt builds the nested dicts.         *)
(***************************************************************************)
RECURSIVE AncOrSelf(_, _)
AncOrSelf(par, i) == IF i = 0 THEN {0} ELSE {i} \cup AncOrSelf(par, par[i])

Shapes(n) ==
  {par \in [1..n -> 0..(n - 1)] :
     \A i \in 1..n :
        /\ par[i] < i
        /\ i > 1 => par[i] \in AncOrSelf(par, i - 1)}

Kids(par, i) == SortedSeq({j \in DOMAIN par : par[j] = i})

RECURSIVE NodeAt(_, _, _, _, _)
NodeAt(par, idx, cat, emptyKids, i) ==
  LET kids == Kids(par, i)
  IN [master_index |-> idx[i],
      container    |-> cat[i],
      has_children |-> (kids # <<>>) \/ emptyKids,
      children     |-> [k \in 1..Len(kids) |->
                          NodeAt(par, idx, cat, emptyKids, kids[k])]]

Document(count, par, idx, cat, emptyKids) ==
  LET top == Kids(par, 0)
  IN [nodes_count |-> count,
      nodes |-> [k \in 1..Len(top) |-> NodeAt(par, idx, cat, emptyKids, top[k])]]

Permutations1(n) ==
  {f \in [1..n -> 1..n] : \A i, j \in 1..n : f[i] = f[j] => i = j}

\* the indices a node of an arbitrary document may carry
IndexVals == -1..(MaxNodes + 1)

(***************************************************************************)
(* Tree.__init__: the attributes of a fresh instance.                      *)
(***************************************************************************)
NoLayout == <<>>
NoFig == [horizontal |-> FALSE, nodes_x |-> <<>>, nodes_y |-> <<>>,
          edges_x |-> <<>>, edges_y |-> <<>>,
          marker_color |-> <<>>, marker_text |-> <<>>]
NoGraph == [id |-> "", height |-> 0]

TreeInit(d) ==
  /\ data = d
  /\ edges = <<>>
  /\ colors = <<COLORS["plot-line"]>> \o [k \in 1..d.nodes_count |-> ""]
  /\ text = <<"root">> \o [k \in 1..d.nodes_count |-> ""]
  /\ calls = 0
  /\ result = "none"
  /\ layout = NoLayout
  /\ fig = NoFig
  /\ graph = NoGraph

\* any document: indices, declared count and containers unconstrained
Init ==
  \E n \in 1..MaxAnyNodes :
    \E par \in Shapes(n), idx \in [1..n -> IndexVals],
       cat \in [1..n -> Containers], count \in 1..MaxNodes :
      TreeInit(Document(count, par, idx, cat, FALSE))

\* the documents the program is written for: the indices are exactly
\* 1..nodes_count, every container is in the palette
InitValid ==
  \E n \in 1..MaxNodes :
    \E par \in Shapes(n), idx \in Permutations1(n),
       cat \in [1..n -> ValidContainers], emptyKids \in BOOLEAN :
      TreeInit(Document(n, par, idx, cat, emptyKids))

(***************************************************************************)
(* The Builder: the loop bodies of get_figure and __add_child_edges.       *)
(* The build state st holds the three attributes and err, the exception    *)
(* that stopped the traversal ("" while none was raised).                  *)
(***************************************************************************)
\* '({}, {})'.format(master_index, container)
Label(i, c) == "(" \o ToString(i) \o ", " \o c \o ")"

\* Python list indexing: i is accepted when -len <= i < len
IndexOk(i, len) == -len <= i /\ i < len
\* the position (1-based) Python index i denotes in a list of length len
Pos(i, len) == IF i >= 0 THEN i + 1 ELSE len + i + 1

\* a slip: the label is formatted with the parent's index
AddNodeParentLabel(st, parent, node) ==
  LET i  == node.master_index
      e1 == Append(st.edges, <<parent, i>>)
  IN IF node.container \notin DOMAIN COLORS
       THEN [st EXCEPT !.edges = e1, !.err = "KeyError"]
     ELSE IF ~(-Len(st.colors) <= i /\ i < Len(st.colors))
       THEN [st EXCEPT !.edges = e1, !.err = "IndexError"]
     ELSE [edges  |-> e1,
           colors |-> [st.colors EXCEPT
                         ![IF i >= 0 THEN i + 1 ELSE Len(st.colors) + i + 1] =
                            COLORS[node.container]],
           text   |-> [st.text EXCEPT
                         ![IF i >= 0 THEN i + 1 ELSE Len(st.text) + i + 1] =
                            Label(parent, node.container)],
           err    |-> ""]

\* one pass of a loop body: append the edge, then set the color (the palette
\* lookup is evaluated before the store), then the text
AddNode(st, parent, node) ==
  LET i  == node.master_index
      e1 == Append(st.edges, <<parent, i>>)
  IN IF node.container \notin DOMAIN COLORS
       THEN [st EXCEPT !.edges = e1, !.err = "KeyError"]
     ELSE IF ~IndexOk(i, Len(st.colors))
       THEN [st EXCEPT !.edges = e1, !.err = "IndexError"]
     ELSE [edges  |-> e1,
           colors |-> [st.colors EXCEPT ![Pos(i, Len(st.colors))] =
                         COLORS[node.container]],
           text   |-> [st.text EXCEPT ![Pos(i, Len(st.text))] =
                         Label(i, node.container)],
           err    |-> ""]

\* a slip: the edge of a child is appended after the edges of its subtree
RECURSIVE AddChildEdgesPostOrder(_, _, _)
AddChildEdgesPostOrder(st, node, k) ==
  IF st.err # "" \/ k > Len(node.children) THEN st
  ELSE LET child == node.children[k]
           st1   == IF child.has_children
                      THEN AddChildEdgesPostOrder(st, child, 1)
                      ELSE st
           st2   == IF st1.err = ""
                      THEN AddNode(st1, node.master_index, child)
                      ELSE st1
       IN AddChildEdgesPostOrder(st2, node, k + 1)

\* Tree.__add_child_edges(node), from child number k on
RECURSIVE AddChildEdges(_, _, _)
AddChildEdges(st, node, k) ==
  IF st.err # "" \/ k > Len(node.children) THEN st
  ELSE LET child == node.children[k]
           st1   == AddNode(st, node.master_index, child)
           st2   == IF st1.err = "" /\ child.has_children
                      THEN AddChildEdges(st1, child, 1)
                      ELSE st1
       IN AddChildEdges(st2, node, k + 1)

\* a slip: the top-level loop does not descend into the children
RECURSIVE RootEdgesFlat(_, _, _)
RootEdgesFlat(st, nodes, k) ==
  IF st.err # "" \/ k > Len(nodes) THEN st
  ELSE RootEdgesFlat(AddNode(st, 0, nodes[k]), nodes, k + 1)

\* the loop of get_figure over data['nodes'], from node number k on
RECURSIVE RootEdges(_, _, _)
RootEdges(st, nodes, k) ==
  IF st.err # "" \/ k > Len(nodes) THEN st
  ELSE LET node == nodes[k]
           st1  == AddNode(st, 0, node)
           st2  == IF st1.err = "" /\ node.has_children
                     THEN AddChildEdges(st1, node, 1)
                     ELSE st1
       IN RootEdges(st2, nodes, k + 1)

(***************************************************************************)
(* The Solver: igraph's Graph, add_edges and layout_reingold_tilford.      *)
(* The library is not part of the repository: add_edges rejects a vertex   *)
(* id outside 0..n-1, the layout puts a vertex on the row of its distance  *)
(* from the root along the edges, and the order coordinates are whatever   *)
(* the library hands out.                                                  *)
(***************************************************************************)
VertexIdsOk(es, n) ==
  \A j \in DOMAIN es : es[j][1] \in 0..(n - 1) /\ es[j][2] \in 0..(n - 1)

RECURSIVE Bfs(_, _, _, _)
Bfs(es, frontier, d, lev) ==
  IF frontier = {} THEN lev
  ELSE LET lev1 == [v \in DOMAIN lev \cup frontier |->
                      IF v \in DOMAIN lev THEN lev[v] ELSE d]
           next == {es[j][2] : j \in {i \in DOMAIN es : es[i][1] \in frontier}}
                     \ DOMAIN lev1
       IN Bfs(es, next, d + 1, lev1)

\* the row of every vertex the root reaches
Rows(es) == Bfs(es, {0}, 0, [v \in {} |-> 0])

\* the layouts of the graph with n vertices and the edges es: layout[k + 1]
\* is the pair <<x, y>> that igraph gives for vertex k.  The library is
\* deterministic: once it has laid the instance's graph out (prev), a vertex
\* keeps its order coordinate and an unreached vertex its row.
Layouts(n, es, prev) ==
  LET rows == Rows(es)
      lost == (0..(n - 1)) \ DOMAIN rows
  IN IF prev = NoLayout
       THEN {[k \in 1..n |->
                <<xs[k], IF (k - 1) \in lost THEN us[k - 1] ELSE rows[k - 1]>>] :
               xs \in [1..n -> OrderVals], us \in [lost -> UnreachedRows]}
       ELSE {[k \in 1..n |->
                <<prev[k][1],
                  IF (k - 1) \in lost THEN prev[k][2] ELSE rows[k - 1]>>]}

(***************************************************************************)
(* The Transform: lines 144-173 of get_figure.                             *)
(***************************************************************************)
None == <<>>
Num(v) == <<v>>

\* a slip: a falsy entry becomes None (-x if x else None)
NegOrNone(e) == IF e = None THEN None ELSE IF e[1] = 0 THEN None ELSE Num(-e[1])

\* lambda x: -x if x else x   (None and 0 are falsy)
NegIfTruthy(e) == IF e = None THEN e ELSE IF e[1] = 0 THEN e ELSE Num(-e[1])

RECURSIVE EdgeCoords(_, _, _)
\* the loop over self.edges: three entries per edge, f gives the coordinate
EdgeCoords(es, f, k) ==
  IF k > Len(es) THEN <<>>
  ELSE <<Num(f[es[k][1] + 1]), Num(f[es[k][2] + 1]), None>>
         \o EdgeCoords(es, f, k + 1)

\* lines 144-157: the coordinates before the orientation is applied
RawCoords(lay, es) ==
  LET n     == Len(lay)
      max_y == Max({lay[k][2] : k \in 1..n})
      nx    == [k \in 1..n |-> 2 * max_y - lay[k][2]]
      ny    == [k \in 1..n |-> lay[k][1]]
  IN [nodes_x |-> nx, nodes_y |-> ny,
      edges_x |-> EdgeCoords(es, nx, 1), edges_y |-> EdgeCoords(es, ny, 1)]

\* a slip: the nodes swap axes, the edge lists do not
SwappedNodesOnly(raw) ==
  [nodes_x |-> raw.nodes_y, nodes_y |-> raw.nodes_x,
   edges_x |-> raw.edges_x, edges_y |-> raw.edges_y]

\* a slip: the horizontal branch mirrors the depth axis after the swap
SwappedAndFlipped(raw) ==
  [nodes_x |-> raw.nodes_y,
   nodes_y |-> [k \in DOMAIN raw.nodes_x |-> -raw.nodes_x[k]],
   edges_x |-> raw.edges_y,
   edges_y |-> [k \in DOMAIN raw.edges_x |-> NegIfTruthy(raw.edges_x[k])]]

\* lines 159-164, horizontal: swap the axes
Swapped(raw) ==
  [nodes_x |-> raw.nodes_y, nodes_y |-> raw.nodes_x,
   edges_x |-> raw.edges_y, edges_y |-> raw.edges_x]

\* a slip: only the depth axis is mirrored
MirroredDepthOnly(raw) ==
  [nodes_x |-> [k \in DOMAIN raw.nodes_x |-> -raw.nodes_x[k]],
   nodes_y |-> raw.nodes_y,
   edges_x |-> [k \in DOMAIN raw.edges_x |-> NegIfTruthy(raw.edges_x[k])],
   edges_y |-> raw.edges_y]

\* lines 166-173, vertical: mirror both axes
Mirrored(raw) ==
  [nodes_x |-> [k \in DOMAIN raw.nodes_x |-> -raw.nodes_x[k]],
   nodes_y |-> [k \in DOMAIN raw.nodes_y |-> -raw.nodes_y[k]],
   edges_x |-> [k \in DOMAIN raw.edges_x |-> NegIfTruthy(raw.edges_x[k])],
   edges_y |-> [k \in DOMAIN raw.edges_y |-> NegIfTruthy(raw.edges_y[k])]]

\* the two traces of the figure: the edge lines and the node markers
Figure(lay, es, cs, ts, horizontal) ==
  LET raw == RawCoords(lay, es)
      c   == IF horizontal THEN Swapped(raw) ELSE Mirrored(raw)
  IN [horizontal |-> horizontal, marker_color |-> cs, marker_text |-> ts]
       @@ c

(***************************************************************************)
(* Tree.get_figure(horizontal) and Tree.view(dash_id, horizontal, height). *)
(***************************************************************************)
Built == RootEdges([edges |-> edges, colors |-> colors, text |-> text,
                    err |-> ""], data.nodes, 1)

\* the effect of one run of get_figure on the instance and its outcome
RunFigure(horizontal) ==
  \E st \in {Built} :
  LET n == data.nodes_count + 1
  IN /\ calls < MaxCalls
     /\ calls' = calls + 1
     /\ edges' = st.edges
     /\ colors' = st.colors
     /\ text' = st.text
     /\ UNCHANGED data
     /\ IF st.err # ""
          THEN result' = st.err /\ UNCHANGED layout /\ fig' = NoFig
        ELSE IF ~VertexIdsOk(st.edges, n)
          THEN result' = "ValueError" /\ UNCHANGED layout /\ fig' = NoFig
        ELSE /\ result' = "ok"
             /\ \E lay \in Layouts(n, st.edges, layout) :
                  /\ layout' = lay
                  /\ fig' = Figure(lay, st.edges, st.colors, st.text, horizontal)

GetFigure(horizontal) ==
  /\ RunFigure(horizontal)
  /\ graph' = NoGraph

DefaultHeight == 250

View(dash_id, horizontal, height) ==
  /\ RunFigure(horizontal)
  /\ graph' = IF result' = "ok"
                THEN [id |-> dash_id,
                      height |-> IF height # 0 THEN height ELSE DefaultHeight]
                ELSE NoGraph

Next ==
  \/ \E h \in BOOLEAN : GetFigure(h)
  \/ \E id \in DashIds, h \in BOOLEAN, height \in Heights : View(id, h, height)

Spec == Init /\ [][Next]_vars

SpecValid == InitValid /\ [][Next]_vars

(***************************************************************************)
(* Vocabulary of the properties.                                           *)
(***************************************************************************)
nodes_count == data.nodes_count

\* the nodes of the document: index, container, index of the parent (0 at
\* top level) and path, the child ordinals leading from the top level to it
RECURSIVE Entries(_, _, _)
Entries(nodes, parent, prefix) ==
  UNION {
    {[index |-> nodes[k].master_index, container |-> nodes[k].container,
      parent |-> parent, path |-> Append(prefix, k)]}
      \cup Entries(nodes[k].children, nodes[k].master_index, Append(prefix, k))
    : k \in 1..Len(nodes)}

DocEntries == Entries(data.nodes, 0, <<>>)

IsPrefix(p, q) == Len(p) < Len(q) /\ SubSeq(q, 1, Len(p)) = p

\* b is a later sibling of a node on the path to a (or of a itself)
AfterSubtreeOf(a, b) ==
  /\ Len(b) <= Len(a)
  /\ SubSeq(a, 1, Len(b) - 1) = SubSeq(b, 1, Len(b) - 1)
  /\ a[Len(b)] < b[Len(b)]

\* the document breaks the schema: an index outside 1..nodes_count, an index
\* used twice, or a declared count that is not the number of distinct indices
Malformed ==
  \/ \E e \in DocEntries : e.index \notin 1..nodes_count
  \/ \E e, f \in DocEntries : e.path # f.path /\ e.index = f.index
  \/ Cardinality({e.index : e \in DocEntries}) # nodes_count

\* a node carries the index of one of the nodes it is nested in
HasBackEdge ==
  \E e, f \in DocEntries : IsPrefix(f.path, e.path) /\ f.index = e.index

\* a vertex of the graph that no nesting of the document leads to
HasUnreachable ==
  \E i \in 1..nodes_count : \A e \in DocEntries : e.index # i

Order(k) == layout[k + 1][1]
Depth(k) == layout[k + 1][2]
X(k) == fig.nodes_x[k + 1]
Y(k) == fig.nodes_y[k + 1]
Vertices == 0..nodes_count

(***************************************************************************)
(* C1: on one instance, every call after the first leaves edges, colors    *)
(* and text as the first call left them.                                   *)
(***************************************************************************)
C1_LaterCallsKeepBuilderOutputs ==
  [][calls >= 1 => (edges' = edges /\ colors' = colors /\ text' = text)]_vars

(***************************************************************************)
(* C2: after the first get_figure on a well-formed document the edge list  *)
(* has nodes_count entries, every index 1..nodes_count is the child of     *)
(* exactly one edge and index 0 is the child of none.                      *)
(***************************************************************************)
C2_OneEdgePerNode ==
  calls = 1 =>
    /\ Len(edges) = nodes_count
    /\ \A i \in 1..nodes_count :
          Cardinality({j \in DOMAIN edges : edges[j][2] = i}) = 1
    /\ \A j \in DOMAIN edges : edges[j][2] # 0

C2_Witness ==
  /\ calls = 1
  /\ result = "ok"
  /\ nodes_count = 3
  /\ \E j \in DOMAIN edges : edges[j][1] # 0

(***************************************************************************)
(* C3: a call on a document that breaks the schema fails, and no layout    *)
(* is made.  (The claim names the error SchemaError; already its weakest   *)
(* reading, that the call fails at all, is what is stated here.)           *)
(***************************************************************************)

C3_MalformedInputRejected ==
  (calls >= 1 /\ Malformed) => (result # "ok" /\ layout = NoLayout)

(***************************************************************************)
(* C4: a call that fails part-way through the build (a category outside    *)
(* the palette, an index past the end of the presized lists) leaves edges, *)
(* colors and text as they were before the call.                           *)
(***************************************************************************)
C4_FailureLeavesNoPartialOutput ==
  [][(calls' = calls + 1 /\ result' \in {"KeyError", "IndexError"})
        => (edges' = edges /\ colors' = colors /\ text' = text)]_vars

(***************************************************************************)
(* C5: in vertical mode a deeper node has the larger x and the root the    *)
(* smallest x of all; as stated, a node with the larger order coordinate   *)
(* has the larger y; as amended, it has the smaller y.                     *)
(***************************************************************************)
VerticalDepthToX ==
  /\ \A a, b \in Vertices : Depth(a) > Depth(b) => X(a) > X(b)
  /\ \A k \in Vertices : X(0) <= X(k)

\* C5 as stated: deeper is further right, larger order is further up
C5_VerticalAsStated ==
  (result = "ok" /\ ~fig.horizontal) =>
    /\ VerticalDepthToX
    /\ \A a, b \in Vertices : Order(a) > Order(b) => Y(a) > Y(b)

\* C5 as amended: deeper is further right, larger order is further down
C5_VerticalOrderDecreasesY ==
  (result = "ok" /\ ~fig.horizontal) =>
    /\ VerticalDepthToX
    /\ \A a, b \in Vertices : Order(a) > Order(b) => Y(a) < Y(b)

C5_Witness ==
  /\ result = "ok"
  /\ ~fig.horizontal
  /\ \E a, b \in Vertices : Order(a) > Order(b) /\ Depth(a) = Depth(b)
  /\ \E a, b \in Vertices : Depth(a) > Depth(b) /\ Depth(b) > 0

(***************************************************************************)
(* C6: in horizontal mode x is the order coordinate and y is fixed by the  *)
(* depth; as stated, the root has the smallest y of all nodes; as amended, *)
(* y = 2 * (largest depth) - depth and the root has the largest y.         *)
(***************************************************************************)
MaxDepth == Max({Depth(k) : k \in Vertices})

HorizontalAxes ==
  /\ \A k \in Vertices : X(k) = Order(k)
  /\ \A a, b \in Vertices : Depth(a) = Depth(b) => Y(a) = Y(b)

\* C6 as stated: x is the order, y follows the depth, the root has the least y
C6_HorizontalAsStated ==
  (result = "ok" /\ fig.horizontal) =>
    /\ HorizontalAxes
    /\ \A k \in Vertices : Y(0) <= Y(k)

\* C6 as amended: x is the order, y = 2 * MaxDepth - depth, the root has the
\* greatest y
C6_HorizontalRootHasLargestY ==
  (result = "ok" /\ fig.horizontal) =>
    /\ HorizontalAxes
    /\ \A k \in Vertices : Y(k) = 2 * MaxDepth - Depth(k)
    /\ \A k \in Vertices \ {0} : Y(0) > Y(k)

C6_Witness ==
  /\ result = "ok"
  /\ fig.horizontal
  /\ \E a, b \in Vertices : Depth(a) > Depth(b) /\ Depth(b) > 0
  /\ \E a, b \in Vertices : Order(a) # Order(b)

(***************************************************************************)
(* C7: for the same edges and layout, the horizontal coordinates are the   *)
(* axis swap of the unmirrored vertical ones, node by node and entry by    *)
(* entry of the edge coordinate lists.                                     *)
(***************************************************************************)
\* undo the mirror of the vertical mode on one entry of an edge list
Unmirror(e) == IF e = None THEN None ELSE Num(-e[1])

AxisSwapped(h, v) ==
  /\ Len(h.nodes_x) = Len(v.nodes_x) /\ Len(h.nodes_y) = Len(v.nodes_y)
  /\ \A k \in DOMAIN h.nodes_x :
        h.nodes_x[k] = -v.nodes_y[k] /\ h.nodes_y[k] = -v.nodes_x[k]
  /\ Len(h.edges_x) = Len(v.edges_y) /\ Len(h.edges_y) = Len(v.edges_x)
  /\ \A j \in DOMAIN h.edges_x :
        /\ h.edges_x[j] = Unmirror(v.edges_y[j])
        /\ h.edges_y[j] = Unmirror(v.edges_x[j])

\* C7: the figure of the call and the figure the other orientation gives for
\* the same edges and layout are related by the axis swap
C7_OrientationSymmetry ==
  result = "ok" =>
    LET other == Figure(layout, edges, colors, text, ~fig.horizontal)
    IN IF fig.horizontal THEN AxisSwapped(fig, other)
                         ELSE AxisSwapped(other, fig)

C7_Witness ==
  /\ result = "ok"
  /\ fig.horizontal
  /\ nodes_count = 3
  /\ \E a, b \in Vertices : Order(a) # Order(b)
  /\ \E j \in DOMAIN fig.edges_x : fig.edges_x[j] = Num(0)
  /\ \E j \in DOMAIN fig.edges_x :
        fig.edges_x[j] # None /\ fig.edges_x[j] # fig.edges_y[j]

EdgeAt(e) == CHOOSE j \in DOMAIN edges : edges[j] = <<e.parent, e.index>>

\* C9: every node has its edge, ordered as depth-first pre-order demands
C9_PreOrderEdges ==
  calls = 1 =>
    /\ \A e \in DocEntries :
          \E j \in DOMAIN edges : edges[j] = <<e.parent, e.index>>
    /\ \A a, b \in DocEntries :
          /\ IsPrefix(a.path, b.path) => EdgeAt(a) < EdgeAt(b)
          /\ AfterSubtreeOf(a.path, b.path) => EdgeAt(a) < EdgeAt(b)

\* Scenario A: node 1 with the child 2, then node 3
C9_Witness ==
  /\ calls = 1
  /\ nodes_count = 3
  /\ Len(data.nodes) = 2
  /\ data.nodes[1].master_index = 1
  /\ Len(data.nodes[1].children) = 1
  /\ data.nodes[1].children[1].master_index = 2
  /\ data.nodes[2].master_index = 3
  /\ edges = << <<0, 1>>, <<1, 2>>, <<0, 3>> >>

(***************************************************************************)
(* C10: a call on a document with a child that carries the index of one of *)
(* its ancestors, or that leaves a vertex unreachable from the root, fails *)
(* and produces no coordinates.                                            *)
(***************************************************************************)
C10_CycleOrUnreachableRejected ==
  (calls >= 1 /\ (HasBackEdge \/ HasUnreachable)) =>
     (result # "ok" /\ fig = NoFig /\ layout = NoLayout)

(***************************************************************************)
(* C11: in both orientations the edge coordinate lists hold, for every     *)
(* edge (p, c) of the edge list in order, three entries: the final         *)
(* coordinate of node p, the final coordinate of node c and None; so both  *)
(* lists have length 3 * Len(edges), every third entry is None and every   *)
(* end point is the final coordinate of its node, also when that is 0.     *)
(***************************************************************************)
C11_EdgeSegments ==
  result = "ok" =>
    /\ Len(fig.edges_x) = 3 * Len(edges)
    /\ Len(fig.edges_y) = 3 * Len(edges)
    /\ \A j \in DOMAIN edges :
          /\ fig.edges_x[3 * j - 2] = Num(X(edges[j][1]))
          /\ fig.edges_y[3 * j - 2] = Num(Y(edges[j][1]))
          /\ fig.edges_x[3 * j - 1] = Num(X(edges[j][2]))
          /\ fig.edges_y[3 * j - 1] = Num(Y(edges[j][2]))
          /\ fig.edges_x[3 * j] = None
          /\ fig.edges_y[3 * j] = None

\* a vertical figure of three edges with an end point at 0 and one not at 0
C11_Witness ==
  /\ result = "ok"
  /\ calls = 1
  /\ ~fig.horizontal
  /\ Len(edges) = 3
  /\ Len(fig.edges_y) = 9
  /\ \E j \in DOMAIN edges : Y(edges[j][2]) = 0 /\ fig.edges_y[3 * j - 1] = Num(0)
  /\ \E j \in DOMAIN edges : Y(edges[j][2]) # 0

====
